---- MODULE Spec2Model ----
(***************************************************************************)
(* Model of llm_writer_macro.py: a LibreOffice Writer macro with four      *)
(* commands (autocomplete, transform_text, show_logs, modify_config) over  *)
(* a JSON configuration file, a plain-text call log and an OpenAI-style    *)
(* HTTP endpoint.  One host thread runs one command at a time; pc is the   *)
(* position of that thread inside the running command (Spec).  SpecOverlap *)
(* is two processes inside set_param at once, on the same files.           *)
(***************************************************************************)
EXTENDS Integers, Sequences, FiniteSets, TLC

VARIABLES
    fs,           \* the files of ~/.llm_writer that hold parameters: path -> content
    logFile,      \* content of LOG_PATH: the lines of the text file
    doc,          \* the document around the selection: [before, sel, after]
    pc,           \* position of the host thread
    cmd,          \* the command the host invoked ("none" when idle)
    fields,       \* modify_config: params, as shown in / read from the dialog
    sp,           \* set_param: [idx (which of modify_config's eight calls), key,
                  \*   value, params (the loaded mapping), active, returned]
    call,         \* call_llm: [url, data, outcome, status, response]
    tf,           \* transform_text: [selected_text, previous_context, next_context,
                  \*   instruction, keep_original,
                  \*   dialog ("none", "ok", "cancel": how the user left the dialog)]
    err,          \* the exception propagating / caught ("none" when none)
    events,       \* what this invocation has done so far, in order
    message,      \* the message box on screen / last shown: [text, lines, err]
    start,        \* [doc, log, params]: the state when the command was invoked
    spOld,        \* the canonical mapping when the running set_param was called
    invocations,  \* number of commands invoked so far
    ov            \* overlapping set_param calls: process -> [pc, key, value, params, fd]

vars == <<fs, logFile, doc, pc, cmd, fields, sp, call, tf,
          err, events, message, start, spOld, invocations, ov>>

(***************************************************************************)
(* Bounds of the model.                                                    *)
(***************************************************************************)
MaxInvocations == 2

(***************************************************************************)
(* Configuration store.                                                    *)
(***************************************************************************)
KeyOrder ==
    << "OPENAI_ENDPOINT", "OPENAI_API_KEY", "MODEL", "MAX_GENERATION_WORDS",
       "CONTEXT_PREVIOUS_CHARS", "CONTEXT_NEXT_CHARS", "TEMPERATURE",
       "AUTOCOMPLETE_ADDITIONAL_INSTRUCTIONS" >>

Keys == { KeyOrder[i] : i \in 1..Len(KeyOrder) }

DefaultParams ==
    [ OPENAI_ENDPOINT |-> "https://api.openai.com/v1/chat/completions",
      OPENAI_API_KEY |-> "",
      MODEL |-> "gpt-4o",
      MAX_GENERATION_WORDS |-> "10",
      CONTEXT_PREVIOUS_CHARS |-> "100",
      CONTEXT_NEXT_CHARS |-> "100",
      TEMPERATURE |-> "0.7",
      AUTOCOMPLETE_ADDITIONAL_INSTRUCTIONS |-> "AUTOCOMPLETE_DEFAULT_PROMPT" ]

PARAMS_PATH == "llm_writer_params.json"

\* (the write aimed at PARAMS_PATH itself)
temp_path_IsParamsPath == "llm_writer_params.json"

\* set_param: temp_path = PARAMS_PATH + ".tmp"
temp_path == "llm_writer_params.json.tmp"

NoFile == [exists |-> FALSE, items |-> << >>, complete |-> FALSE]

\* json.dump(params, f, indent=4) followed by the close of the file: the
\* items of the mapping in insertion order, and the closing brace.
JsonDump(params) ==
    [ exists |-> TRUE,
      items |-> [ i \in 1..Len(KeyOrder) |-> <<KeyOrder[i], params[KeyOrder[i]]>> ],
      complete |-> TRUE ]

\* A file as a crash in the middle of json.dump leaves it: the first n items.
Truncated(file, n) ==
    [ exists |-> TRUE, items |-> SubSeq(file.items, 1, n), complete |-> FALSE ]

\* json.load succeeds on a complete object only.
JsonLoadable(file) == file.exists /\ file.complete

JsonLoad(file) ==
    [ k \in { file.items[i][1] : i \in 1..Len(file.items) } |->
        LET i == CHOOSE j \in 1..Len(file.items) : file.items[j][1] = k
        IN  file.items[i][2] ]

\* init_db_maybe, the parameters file: written with the defaults when absent.
init_db_maybe(files) ==
    IF files[PARAMS_PATH].exists THEN files
    ELSE [files EXCEPT ![PARAMS_PATH] = JsonDump(DefaultParams)]

\* params.get(key): None for a key the mapping lacks.
None == "<None>"

\* What a call gives when json.load raises JSONDecodeError.
JSONDecodeError == "<JSONDecodeError>"

\* init_db_maybe() and json.load(f) at the head of get_param, set_param and
\* modify_config: the load succeeds on the file init_db_maybe leaves.
ParamsLoadable == JsonLoadable(init_db_maybe(fs)[PARAMS_PATH])

\* get_param(key), its result: the value read from the file init_db_maybe
\* leaves (the defaults when the file was absent), None for a key the
\* mapping lacks, JSONDecodeError when the file is no complete object.  The
\* write of init_db_maybe is fs' = init_db_maybe(fs) in the actions that
\* call get_param.
get_param(key) ==
    LET file == init_db_maybe(fs)[PARAMS_PATH]
        params == JsonLoad(file)
    IN  IF ~JsonLoadable(file) THEN JSONDecodeError
        ELSE IF key \in DOMAIN params THEN params[key] ELSE None

\* int(s): the integer a decimal literal denotes; ValueError for the rest.
IntLiterals == [ s \in {"0", "1", "10", "100"} |->
                   CASE s = "0" -> 0 [] s = "1" -> 1 [] s = "10" -> 10 [] s = "100" -> 100 ]

IntParses(s) == s \in DOMAIN IntLiterals

ParseInt(s) == IntLiterals[s]

\* float(s), in tenths; ValueError for the rest.
FloatParses(s) == s \in {"0.7", "1.0"} \/ IntParses(s)

ParseFloat(s) ==
    CASE s = "0.7" -> 7 [] s = "1.0" -> 10 [] OTHER -> 10 * ParseInt(s)

\* The values the user types into a field of the configuration dialog.
FieldChoices(k) ==
    CASE k = "OPENAI_API_KEY" -> {"", "sk-1"}
      [] k = "CONTEXT_PREVIOUS_CHARS" -> {"100", "x"}
      [] OTHER -> {DefaultParams[k]}

\* The mappings the dialog can save: each key with one of its choices.
ParamsSpace ==
    { [ k \in Keys |->
          CASE k = "OPENAI_API_KEY" -> a
            [] k = "CONTEXT_PREVIOUS_CHARS" -> b
            [] OTHER -> DefaultParams[k] ] :
      a \in FieldChoices("OPENAI_API_KEY"),
      b \in FieldChoices("CONTEXT_PREVIOUS_CHARS") }

(***************************************************************************)
(* Document: the text before the selection, the selected text, the text    *)
(* after it.  The selection is taken forward (the caret is at its end).    *)
(***************************************************************************)
Docs ==
    { [before |-> <<"a", "b">>, sel |-> << >>, after |-> <<"c", "d">>],
      [before |-> <<"a">>, sel |-> <<"h">>, after |-> <<"d">>] }

Min(a, b) == IF a < b THEN a ELSE b
Max(a, b) == IF a > b THEN a ELSE b

DocText(d) == d.before \o d.sel \o d.after

\* createTextCursorByRange(cursor).goLeft(n, True).getString()
GoLeftString(d, n) ==
    LET s == Len(d.before)
        e == s + Len(d.sel)
        p == Max(0, e - n)
    IN  SubSeq(DocText(d), Min(s, p) + 1, Max(s, p))

\* createTextCursorByRange(cursor).goRight(n, True).getString()
GoRightString(d, n) ==
    LET s == Len(d.before)
        e == s + Len(d.sel)
        p == Min(Len(DocText(d)), e + n)
    IN  SubSeq(DocText(d), s + 1, p)

\* get_context raises ValueError when a context size is no integer.
ContextParses ==
    /\ IntParses(get_param("CONTEXT_PREVIOUS_CHARS"))
    /\ IntParses(get_param("CONTEXT_NEXT_CHARS"))

get_context(d) ==
    [ previous_context |-> GoLeftString(d, ParseInt(get_param("CONTEXT_PREVIOUS_CHARS"))),
      next_context |-> GoRightString(d, ParseInt(get_param("CONTEXT_NEXT_CHARS"))) ]

\* cursor.setString(s): the selected range is replaced, nothing else.
SetString(d, s) == [d EXCEPT !.sel = s]

(***************************************************************************)
(* Requests, responses and the call log.                                   *)
(***************************************************************************)
NoData == [ model |-> "", system |-> "", user |-> << >>, temperature |-> 0,
            max_tokens |-> 0 ]

\* autocomplete, the request body.
AutocompleteData(d) ==
    LET ctx == get_context(d)
    IN  [ model |-> get_param("MODEL"),
          system |-> get_param("AUTOCOMPLETE_ADDITIONAL_INSTRUCTIONS"),
          user |-> ctx.previous_context \o <<"[COMPLETE HERE]">> \o ctx.next_context,
          temperature |-> ParseFloat(get_param("TEMPERATURE")),
          max_tokens |-> ParseInt(get_param("MAX_GENERATION_WORDS")) * 4 ]

DefaultInstruction == "Perform the task present after the 'Original Text:'"

\* transform_text, the request body (it carries no max_tokens: 0 here),
\* built after the instruction dialog from the locals taken before it
\* (selected_text, line 230; the contexts, line 231) and from the
\* parameters read now (MODEL, TEMPERATURE).
TransformData(previous_context, selected_text, next_context, instruction) ==
    [ model |-> get_param("MODEL"),
      system |-> instruction,
      user |-> <<"Previous context: ">> \o previous_context
               \o <<"\nOriginal text: ">> \o selected_text
               \o <<"\nNext context: ">> \o next_context
               \o <<"\n\nTransformed text:">>,
      temperature |-> ParseFloat(get_param("TEMPERATURE")),
      max_tokens |-> 0 ]

\* Response bodies.  lines is the number of text lines of the body as logged.
NoBody == [ kind |-> "none", content |-> << >>, lines |-> 0 ]
ChatBody(c) == [ kind |-> "chat", content |-> c, lines |-> 1 ]
EmptyBody == [ kind |-> "empty", content |-> << >>, lines |-> 1 ]
NoChoicesBody == [ kind |-> "nochoices", content |-> << >>, lines |-> 1 ]
NotJsonBody == [ kind |-> "notjson", content |-> << >>, lines |-> 1 ]
ErrorBody(n) == [ kind |-> "error", content |-> << >>, lines |-> n ]

Contents == { <<"c">>, <<"h">> }

\* What urlopen can do: a 2xx response (a chat completion, the empty object,
\* an object without choices, a body that is no JSON), an HTTP error status
\* whose body has one or two lines, a transport failure.
HttpOutcomes ==
    { [kind |-> "ok", status |-> 200, body |-> ChatBody(c)] : c \in Contents }
    \cup { [kind |-> "ok", status |-> 200, body |-> EmptyBody],
           [kind |-> "ok", status |-> 200, body |-> NoChoicesBody],
           [kind |-> "notjson", status |-> 200, body |-> NotJsonBody],
           [kind |-> "urlerror", status |-> 0, body |-> NoBody] }
    \cup { [kind |-> "httperror", status |-> 500, body |-> ErrorBody(n)] : n \in 1..2 }

NoCall == [ url |-> "", data |-> NoData, outcome |-> "none", status |-> 0,
            response |-> NoBody ]

\* One line of the log file.
Line(part, n, endpoint, status, request, response) ==
    [ part |-> part, n |-> n, endpoint |-> endpoint, status |-> status,
      request |-> request, response |-> response ]

InitLine == Line("initializing...", 1, "", 0, NoData, NoBody)

\* _log_api_call: the lines one call appends.
EntryLines(endpoint, request, response, status_code) ==
    << Line("Timestamp:", 1, "", 0, NoData, NoBody),
       Line("Endpoint: Status Code:", 1, endpoint, status_code, NoData, NoBody),
       Line("Request:", 1, "", 0, request, NoBody) >>
    \o [ i \in 1..response.lines |-> Line("Response:", i, "", 0, NoData, response) ]
    \o << Line("----------------------------------------", 1, "", 0, NoData, NoBody) >>

\* f.readlines()[-limit:]
LastLines(lines, limit) ==
    SubSeq(lines, Max(1, Len(lines) - limit + 1), Len(lines))

\* get_api_logs(limit).  LOG_PATH exists in every state: init_db_maybe has
\* created it at import, and nothing here removes it.
get_api_logs(limit) == LastLines(logFile, limit)

LogLimit == 10

NoMessage == [ text |-> "", lines |-> << >>, err |-> "none" ]

(***************************************************************************)
(* Initial state: the module has been imported (init_db_maybe has run),    *)
(* the parameters file is one the program can have left (StoredFiles),     *)
(* the log holds the line init_db_maybe wrote, no command is running.      *)
(***************************************************************************)
NoSp == [ idx |-> 0, key |-> "", value |-> "", params |-> << >>,
          active |-> FALSE, returned |-> FALSE ]

NoTf == [ selected_text |-> << >>, previous_context |-> << >>,
          next_context |-> << >>, instruction |-> "", keep_original |-> FALSE,
          dialog |-> "none" ]

NoStart == [ doc |-> [before |-> << >>, sel |-> << >>, after |-> << >>],
             log |-> << >>, params |-> NoFile ]

\* No set_param call of another process is under way.
NoOverlap == << >>

\* The parameters file before the import: absent (first run), written by a
\* confirm of the configuration dialog, or cut short by a crash of an
\* earlier run inside init_db_maybe's own write (open(PARAMS_PATH, "w") and
\* json.dump, lines 37-52, write the canonical file in place).
StoredFiles ==
    { NoFile }
    \cup { JsonDump(p) : p \in ParamsSpace }
    \cup { Truncated(JsonDump(DefaultParams), n) : n \in {0, Len(KeyOrder)} }

\* The module has been imported and the host is idle.
Imported ==
    /\ \E file \in StoredFiles :
         fs = init_db_maybe([ f \in {PARAMS_PATH, temp_path} |->
                                IF f = PARAMS_PATH THEN file ELSE NoFile ])
    /\ logFile = << InitLine >>
    /\ doc \in Docs
    /\ pc = "idle"
    /\ cmd = "none"
    /\ fields = << >>
    /\ sp = NoSp
    /\ call = NoCall
    /\ tf = NoTf
    /\ err = "none"
    /\ events = << >>
    /\ message = NoMessage
    /\ start = NoStart
    /\ spOld = << >>
    /\ invocations = 0

Init == Imported /\ ov = NoOverlap

(***************************************************************************)
(* Pieces shared by the command handlers.                                  *)
(***************************************************************************)
\* The host invokes command c.
Begin(c) ==
    /\ pc = "idle"
    /\ invocations < MaxInvocations
    /\ invocations' = invocations + 1
    /\ cmd' = c
    /\ start' = [ doc |-> doc, log |-> logFile, params |-> fs[PARAMS_PATH] ]

\* (the check as `if api_key is None`)
KeyUnset_OnlyNone(api_key) == api_key = None

\* `if not api_key`
KeyUnset(api_key) == api_key = "" \/ api_key = None

\* except Exception as e: ... show_message(full_error), in autocomplete and
\* transform_text: exception e, raised after the events ev, ends in a message box.
Caught(e, ev) ==
    /\ err' = e
    /\ message' = [ text |-> "FULL ERROR", lines |-> << >>, err |-> e ]
    /\ events' = Append(ev, "message")
    /\ pc' = "message_box"

\* An exception leaves a handler that has no try block and reaches the host.
Escapes(e) ==
    /\ err' = e
    /\ pc' = "escaped"
    /\ UNCHANGED <<message, events>>

\* modify_config up to dialog.execute(): init_db_maybe() writes the defaults
\* when the file is absent, the parameters are loaded and shown, one edit
\* field per key, each holding str(value).  modify_config has no try block:
\* the JSONDecodeError of json.load leaves it, and is caught when the caller
\* is autocomplete or transform_text (inTry), else reaches the host.
OpenConfigDialog(inTry) ==
    /\ fs' = init_db_maybe(fs)
    /\ IF ~ParamsLoadable
       THEN /\ IF inTry THEN Caught("JSONDecodeError", events)
                        ELSE Escapes("JSONDecodeError")
            /\ UNCHANGED fields
       ELSE /\ fields' = JsonLoad(init_db_maybe(fs)[PARAMS_PATH])
            /\ events' = Append(events, "config_dialog")
            /\ pc' = "config_dialog"
            /\ UNCHANGED <<err, message>>

(***************************************************************************)
(* autocomplete                                                            *)
(***************************************************************************)
\* autocomplete from its entry to the first point where it waits: the
\* configuration dialog, the error message box, or the HTTP request.
autocomplete ==
    /\ Begin("autocomplete")
    /\ IF ~ParamsLoadable
       THEN /\ fs' = init_db_maybe(fs)
            /\ Caught("JSONDecodeError", events)
            /\ UNCHANGED <<fields, call>>
       ELSE IF KeyUnset(get_param("OPENAI_API_KEY"))
       THEN /\ OpenConfigDialog(TRUE)
            /\ UNCHANGED call
       ELSE IF \/ ~ContextParses
               \/ ~FloatParses(get_param("TEMPERATURE"))
               \/ ~IntParses(get_param("MAX_GENERATION_WORDS"))
       THEN /\ fs' = init_db_maybe(fs)
            /\ Caught("ValueError", events)
            /\ UNCHANGED <<fields, call>>
       ELSE /\ fs' = init_db_maybe(fs)
            /\ call' = [ NoCall EXCEPT !.url = get_param("OPENAI_ENDPOINT"),
                                       !.data = AutocompleteData(doc) ]
            /\ pc' = "urlopen"
            /\ UNCHANGED <<fields, err, message, events>>
    /\ UNCHANGED <<logFile, doc, sp, tf, spOld>>
    /\ UNCHANGED ov

(***************************************************************************)
(* transform_text                                                          *)
(***************************************************************************)
\* (the check left out)
NothingSelected_Never(selected_text) == FALSE

\* `if not selected_text`
NothingSelected(selected_text) == selected_text = << >>

\* transform_text from its entry to the first point where it waits or returns.
transform_text ==
    /\ Begin("transform_text")
    /\ IF ~ParamsLoadable
       THEN /\ fs' = init_db_maybe(fs)
            /\ Caught("JSONDecodeError", events)
            /\ UNCHANGED <<fields, tf>>
       ELSE IF KeyUnset(get_param("OPENAI_API_KEY"))
       THEN /\ OpenConfigDialog(TRUE)
            /\ UNCHANGED tf
       ELSE IF ~ContextParses
       THEN /\ fs' = init_db_maybe(fs)
            /\ Caught("ValueError", events)
            /\ UNCHANGED <<fields, tf>>
       ELSE IF NothingSelected(doc.sel)
       THEN /\ fs' = init_db_maybe(fs)
            /\ pc' = "returned"
            /\ UNCHANGED <<fields, tf, err, message, events>>
       ELSE /\ fs' = init_db_maybe(fs)
            /\ tf' = [ NoTf EXCEPT
                         !.selected_text = doc.sel,
                         !.previous_context = get_context(doc).previous_context,
                         !.next_context = get_context(doc).next_context ]
            /\ events' = Append(events, "instruction_dialog")
            /\ pc' = "instruction_dialog"
            /\ UNCHANGED <<fields, err, message>>
    /\ UNCHANGED <<logFile, doc, sp, call, spOld>>
    /\ UNCHANGED ov

\* show_input_dialog_with_checkbox: what dialog.execute() and the controls give.
show_input_dialog_with_checkbox(ok, text, state) ==
    IF ok THEN [ instruction |-> text, keep_original |-> state ]
          ELSE [ instruction |-> None, keep_original |-> FALSE ]

\* (the check left out)
Cancelled_Never(instruction) == FALSE

\* `if instruction is None`
Cancelled(instruction) == instruction = None

\* The user answers the instruction dialog; transform_text goes on to the
\* HTTP request, or returns when the dialog was cancelled.
instruction_dialog ==
    /\ pc = "instruction_dialog"
    /\ \E ok \in BOOLEAN, text \in {"", "translate to French"}, state \in BOOLEAN :
         LET r == show_input_dialog_with_checkbox(ok, text, state)
             instruction == IF r.instruction = "" THEN DefaultInstruction
                            ELSE r.instruction
             answer == IF ok THEN "ok" ELSE "cancel"
         IN  IF Cancelled(r.instruction)
             THEN /\ pc' = "returned"
                  /\ tf' = [ tf EXCEPT !.dialog = answer ]
                  /\ UNCHANGED <<fs, call, err, message, events>>
             ELSE IF ~ParamsLoadable
             THEN /\ fs' = init_db_maybe(fs)
                  /\ Caught("JSONDecodeError", events)
                  /\ tf' = [ tf EXCEPT !.dialog = answer ]
                  /\ UNCHANGED call
             ELSE IF ~FloatParses(get_param("TEMPERATURE"))
             THEN /\ fs' = init_db_maybe(fs)
                  /\ Caught("ValueError", events)
                  /\ tf' = [ tf EXCEPT !.dialog = answer ]
                  /\ UNCHANGED call
             ELSE /\ fs' = init_db_maybe(fs)
                  /\ tf' = [ tf EXCEPT !.instruction = instruction,
                                       !.keep_original = r.keep_original,
                                       !.dialog = answer ]
                  /\ call' = [ NoCall EXCEPT
                                 !.url = get_param("OPENAI_ENDPOINT"),
                                 !.data = TransformData(tf.previous_context, tf.selected_text,
                                                       tf.next_context, instruction) ]
                  /\ pc' = "urlopen"
                  /\ UNCHANGED <<err, message, events>>
    /\ UNCHANGED <<logFile, doc, cmd, fields, sp, start, spOld, invocations>>
    /\ UNCHANGED ov

(***************************************************************************)
(* call_llm                                                                *)
(***************************************************************************)
\* urllib.request.urlopen(req) and json.loads(response.read()): a response
\* that parses and an HTTPError go on to _log_api_call; a body that is no
\* JSON (ValueError) and a transport failure (URLError) are caught by no
\* handler of call_llm and leave it at once.
urlopen ==
    /\ pc = "urlopen"
    /\ \E o \in HttpOutcomes :
         /\ call' = [ call EXCEPT !.outcome = o.kind, !.status = o.status,
                                  !.response = o.body ]
         /\ IF o.kind \in {"ok", "httperror"}
            THEN /\ pc' = "log_api_call"
                 /\ events' = Append(events, "http")
                 /\ UNCHANGED <<err, message>>
            ELSE Caught(IF o.kind = "notjson" THEN "ValueError" ELSE "URLError",
                        Append(events, "http"))
    /\ UNCHANGED <<fs, logFile, doc, cmd, fields, sp, tf, start, spOld, invocations>>
    /\ UNCHANGED ov

\* The exception that leaves call_llm after _log_api_call: the OSError of a
\* log write that failed (raised inside the try block, or inside the except
\* block before its `raise`), else the HTTPError re-raised, else none.
Propagates(outcome, logged) ==
    IF ~logged THEN "OSError"
    ELSE IF outcome = "httperror" THEN "HTTPError"
    ELSE "none"

\* _log_api_call, and the return or raise of call_llm that follows it.  The
\* log file can be written, or open(LOG_PATH, "a") raises OSError.
log_api_call ==
    /\ pc = "log_api_call"
    /\ \E writable \in BOOLEAN :
         LET ev == IF writable THEN Append(events, "log") ELSE events
             e  == Propagates(call.outcome, writable)
         IN  /\ logFile' = IF writable
                           THEN logFile \o EntryLines(call.url, call.data,
                                                      call.response, call.status)
                           ELSE logFile
             /\ IF e = "none"
                THEN /\ pc' = "call_returned"
                     /\ events' = ev
                     /\ UNCHANGED <<err, message>>
                ELSE Caught(e, ev)
    /\ UNCHANGED <<fs, doc, cmd, fields, sp, call, tf, start, spOld, invocations>>
    /\ UNCHANGED ov

\* `if response`: the empty JSON object is false.
Truthy(response) == response.kind # "empty"

\* (the markers written in the keep-original branch only)
Replacement_BareWhenNotKept(selected_text, content, keep_original) ==
    IF keep_original
    THEN selected_text \o <<"\n", "\n", "U+21A6">> \o content \o <<"U+21A4">>
    ELSE content

\* transform_text: the text that replaces the selection.
Replacement(selected_text, content, keep_original) ==
    IF keep_original
    THEN selected_text \o <<"\n", "\n", "U+21A6">> \o content \o <<"U+21A4">>
    ELSE <<"U+21A6">> \o content \o <<"U+21A4">>

\* The handler uses the response call_llm returned: autocomplete lines
\* 211-212, transform_text lines 260-271.  response["choices"] of an object
\* without choices raises KeyError before setString is called.
use_response ==
    /\ pc = "call_returned"
    /\ IF ~Truthy(call.response)
       THEN /\ pc' = "returned"
            /\ UNCHANGED <<doc, err, message, events>>
       ELSE IF call.response.kind # "chat"
       THEN /\ Caught("KeyError", events)
            /\ UNCHANGED doc
       ELSE /\ doc' = SetString(doc,
                        IF cmd = "autocomplete" THEN call.response.content
                        ELSE Replacement(tf.selected_text, call.response.content,
                                         tf.keep_original))
            /\ events' = Append(events, "setString")
            /\ pc' = "returned"
            /\ UNCHANGED <<err, message>>
    /\ UNCHANGED <<fs, logFile, cmd, fields, sp, call, tf, start, spOld, invocations>>
    /\ UNCHANGED ov

(***************************************************************************)
(* show_logs                                                               *)
(***************************************************************************)
\* show_logs has no try block: when reading LOG_PATH raises, the exception
\* leaves the handler.  Otherwise the last LogLimit lines are shown, or the
\* notice when there is no line.
show_logs ==
    /\ Begin("show_logs")
    /\ \E readable \in BOOLEAN :
         IF ~readable
         THEN Escapes("OSError")
         ELSE LET logs == get_api_logs(LogLimit)
              IN  /\ message' = IF logs = << >>
                                THEN [ NoMessage EXCEPT !.text = "No API logs found" ]
                                ELSE [ NoMessage EXCEPT !.text = "API Logs:",
                                                        !.lines = logs ]
                  /\ events' = Append(events, "message")
                  /\ pc' = "message_box"
                  /\ UNCHANGED err
    /\ UNCHANGED <<fs, logFile, doc, fields, sp, call, tf, spOld>>
    /\ UNCHANGED ov

(***************************************************************************)
(* modify_config and set_param                                             *)
(***************************************************************************)
\* The host invokes modify_config.
modify_config ==
    /\ Begin("modify_config")
    /\ OpenConfigDialog(FALSE)
    /\ UNCHANGED <<logFile, doc, sp, call, tf, spOld>>
    /\ UNCHANGED ov

\* dialog.execute() returns false: the dialog is disposed, nothing is saved.
config_cancel ==
    /\ pc = "config_dialog"
    /\ pc' = "returned"
    /\ UNCHANGED <<fs, logFile, doc, cmd, fields, sp, call, tf, err, events,
                   message, start, spOld, invocations>>
    /\ UNCHANGED ov

\* dialog.execute() returns true: params takes the text of every edit field,
\* and the first of the eight set_param calls is entered.
config_confirm ==
    /\ pc = "config_dialog"
    /\ \E edited \in ParamsSpace :
         fields' = [ k \in DOMAIN fields |-> edited[k] ]
    /\ sp' = [ NoSp EXCEPT !.idx = 1 ]
    /\ pc' = "set_param"
    /\ UNCHANGED <<fs, logFile, doc, cmd, call, tf, err, events, message, start,
                   spOld, invocations>>
    /\ UNCHANGED ov

\* (the call for OPENAI_API_KEY left out)
SavedKeys_WithoutApiKey ==
    << "OPENAI_ENDPOINT", "MODEL", "MAX_GENERATION_WORDS",
       "CONTEXT_PREVIOUS_CHARS", "CONTEXT_NEXT_CHARS", "TEMPERATURE",
       "AUTOCOMPLETE_ADDITIONAL_INSTRUCTIONS" >>

\* modify_config, lines 405-415: the keys of its set_param calls, in order.
SavedKeys ==
    << "OPENAI_ENDPOINT", "OPENAI_API_KEY", "MODEL", "MAX_GENERATION_WORDS",
       "CONTEXT_PREVIOUS_CHARS", "CONTEXT_NEXT_CHARS", "TEMPERATURE",
       "AUTOCOMPLETE_ADDITIONAL_INSTRUCTIONS" >>

\* set_param(key, value), lines 71-77: the mapping is loaded and updated in
\* memory.  The key is that of the idx-th call of modify_config.  The
\* JSONDecodeError of json.load leaves set_param and modify_config: it is
\* caught when modify_config was called by autocomplete or transform_text
\* (lines 184, 226, inside their try), else it reaches the host.
set_param_load ==
    /\ pc = "set_param"
    /\ LET key == SavedKeys[sp.idx]
           files == init_db_maybe(fs)
           params == JsonLoad(files[PARAMS_PATH])
       IN  /\ fs' = files
           /\ IF ~JsonLoadable(files[PARAMS_PATH])
              THEN /\ IF cmd \in {"autocomplete", "transform_text"}
                      THEN Caught("JSONDecodeError", events)
                      ELSE Escapes("JSONDecodeError")
                   /\ UNCHANGED <<sp, spOld>>
              ELSE /\ spOld' = params
                   /\ sp' = [ sp EXCEPT !.key = key, !.value = fields[key],
                                        !.params = [ k \in DOMAIN params \cup {key} |->
                                                       IF k = key THEN fields[key]
                                                       ELSE params[k] ],
                                        !.active = TRUE, !.returned = FALSE ]
                   /\ pc' = "set_param_open"
                   /\ UNCHANGED <<err, events, message>>
    /\ UNCHANGED <<logFile, doc, cmd, fields, call, tf, start, invocations>>
    /\ UNCHANGED ov

\* open(temp_path, "w"): the file is created or truncated.
set_param_open ==
    /\ pc = "set_param_open"
    /\ fs' = [ fs EXCEPT ![temp_path] = Truncated(NoFile, 0) ]
    /\ pc' = "set_param_dump"
    /\ UNCHANGED <<logFile, doc, cmd, fields, sp, call, tf, err, events,
                   message, start, spOld, invocations>>
    /\ UNCHANGED ov

\* json.dump(params, f, indent=4) and the close of the file.
set_param_dump ==
    /\ pc = "set_param_dump"
    /\ fs' = [ fs EXCEPT ![temp_path] = JsonDump(sp.params) ]
    /\ pc' = "set_param_replace"
    /\ UNCHANGED <<logFile, doc, cmd, fields, sp, call, tf, err, events,
                   message, start, spOld, invocations>>
    /\ UNCHANGED ov

\* os.replace(src, dst)
os_replace(files, src, dst) ==
    IF src = dst THEN files
    ELSE [ files EXCEPT ![dst] = files[src], ![src] = NoFile ]

\* os.replace(temp_path, PARAMS_PATH); set_param returns.  modify_config
\* enters its next set_param call, or acknowledges after the last one.
set_param_replace ==
    /\ pc = "set_param_replace"
    /\ fs' = os_replace(fs, temp_path, PARAMS_PATH)
    /\ IF sp.idx < Len(SavedKeys)
       THEN /\ sp' = [ sp EXCEPT !.idx = sp.idx + 1, !.returned = TRUE ]
            /\ pc' = "set_param"
            /\ UNCHANGED <<message, events>>
       ELSE /\ sp' = [ sp EXCEPT !.returned = TRUE ]
            /\ message' = [ NoMessage EXCEPT
                              !.text = "Configuration updated successfully!" ]
            /\ events' = Append(events, "message")
            /\ pc' = "message_box"
    /\ UNCHANGED <<logFile, doc, cmd, fields, call, tf, err, start, spOld,
                   invocations>>
    /\ UNCHANGED ov

(***************************************************************************)
(* The message box, the return to the host, a crash of the process.        *)
(***************************************************************************)
\* msgbox.execute() returns when the user closes the box; every caller of
\* show_message returns after it.
message_box ==
    /\ pc = "message_box"
    /\ pc' = "returned"
    /\ UNCHANGED <<fs, logFile, doc, cmd, fields, sp, call, tf, err, events,
                   message, start, spOld, invocations>>
    /\ UNCHANGED ov

\* The command has returned to the host, or its exception has reached it.
host_resumes ==
    /\ pc \in {"returned", "escaped"}
    /\ pc' = "idle"
    /\ cmd' = "none"
    /\ fields' = << >>
    /\ sp' = NoSp
    /\ call' = NoCall
    /\ tf' = NoTf
    /\ err' = "none"
    /\ events' = << >>
    /\ message' = NoMessage
    /\ start' = NoStart
    /\ spOld' = << >>
    /\ UNCHANGED <<fs, logFile, doc, invocations>>
    /\ UNCHANGED ov

\* The process dies while a command runs: its memory is lost, the files stay.
\* A file that json.dump was writing is left without its end: with nothing
\* flushed yet, or with every item flushed and the closing brace missing.
\* (sp and spOld are kept to say which set_param call was cut short.)
crash ==
    /\ pc \notin {"idle", "crashed"}
    /\ pc' = "crashed"
    /\ IF pc = "set_param_dump"
       THEN \E n \in {0, Len(KeyOrder)} :
              fs' = [ fs EXCEPT ![temp_path] = Truncated(JsonDump(sp.params), n) ]
       ELSE UNCHANGED fs
    /\ sp' = [ sp EXCEPT !.idx = 0, !.params = << >> ]
    /\ cmd' = "none"
    /\ fields' = << >>
    /\ call' = NoCall
    /\ tf' = NoTf
    /\ err' = "none"
    /\ events' = << >>
    /\ message' = NoMessage
    /\ start' = NoStart
    /\ UNCHANGED <<logFile, doc, spOld, invocations>>
    /\ UNCHANGED ov

\* The host loads the module again: init_db_maybe() at import.
restart ==
    /\ pc = "crashed"
    /\ fs' = init_db_maybe(fs)
    /\ pc' = "idle"
    /\ sp' = NoSp
    /\ spOld' = << >>
    /\ UNCHANGED <<logFile, doc, cmd, fields, call, tf, err, events, message,
                   start, invocations>>
    /\ UNCHANGED ov

Next ==
    \/ autocomplete
    \/ transform_text
    \/ instruction_dialog
    \/ urlopen
    \/ log_api_call
    \/ use_response
    \/ show_logs
    \/ modify_config
    \/ config_cancel
    \/ config_confirm
    \/ set_param_load
    \/ set_param_open
    \/ set_param_dump
    \/ set_param_replace
    \/ message_box
    \/ host_resumes
    \/ crash
    \/ restart

Spec == Init /\ [][Next]_vars

(***************************************************************************)
(* Overlapping set_param calls: two processes of the host, each inside one *)
(* set_param(key, value) call, share PARAMS_PATH and the one temp_path.    *)
(* Their file operations interleave in any order.  fd is the place of the  *)
(* file a process holds open: open(temp_path, "w") truncates the file that *)
(* is there, so both processes can hold the same file, and a rename moves  *)
(* that file to PARAMS_PATH while the other still writes to it.            *)
(***************************************************************************)
Procs == {"A", "B"}

\* The set_param calls a confirm of the model's dialog can make with a value
\* that varies.
OverlapCalls ==
    { [ pc |-> "load", key |-> k, value |-> v, params |-> << >>, fd |-> "none" ] :
      k \in {"OPENAI_API_KEY", "CONTEXT_PREVIOUS_CHARS"},
      v \in FieldChoices("OPENAI_API_KEY") \cup FieldChoices("CONTEXT_PREVIOUS_CHARS") }

\* The calls are those of a confirm: modify_config has loaded the file.
InitOverlap ==
    /\ Imported
    /\ JsonLoadable(fs[PARAMS_PATH])
    /\ ov \in { o \in [Procs -> OverlapCalls] :
                  \A p \in Procs : o[p].value \in FieldChoices(o[p].key) }

RECURSIVE ItemsSize(_, _)
ItemsSize(items, n) ==
    IF n = 0 THEN 0 ELSE Len(items[n][2]) + ItemsSize(items, n - 1)

\* The length of a file, up to the part every dump of the mapping shares
\* (braces, keys, indentation): the characters of its values.
Size(file) == ItemsSize(file.items, Len(file.items))

\* f.write at offset 0 of a file that holds old: the written text replaces
\* the start of the file and the file keeps what it holds beyond it, so a
\* shorter text leaves the tail of the longer one behind it (no JSON).
Overwrite(old, written) ==
    IF Size(old) <= Size(written) THEN written
    ELSE [ written EXCEPT !.complete = FALSE ]

\* set_param, lines 71-77, in process p, one file operation a step; the
\* other process can run between any two of them.
\*   "load":      init_db_maybe's test os.path.exists(PARAMS_PATH), line 36.
\*   "init_open": open(PARAMS_PATH, "w"), line 37, taken when the test found
\*                no file: the file is created, or emptied where it is when
\*                another process has put one there since the test.
\*   "init_dump": json.dump of the defaults and the close, lines 38-52,
\*                into the file p holds, wherever that file is now.
\*   "json_load": open(PARAMS_PATH, "r") and json.load, lines 73-74, which
\*                raise on a missing file and on a file that is no complete
\*                JSON object; then params[key] = value, line 77.
overlap_load(p) ==
    /\ ov[p].pc \in {"load", "init_open", "init_dump", "json_load"}
    /\ IF ov[p].pc = "load"
       THEN /\ ov' = [ ov EXCEPT ![p].pc = IF fs[PARAMS_PATH].exists
                                           THEN "json_load" ELSE "init_open" ]
            /\ UNCHANGED fs
       ELSE IF ov[p].pc = "init_open"
       THEN /\ fs' = [ fs EXCEPT ![PARAMS_PATH] = Truncated(NoFile, 0) ]
            /\ ov' = [ ov EXCEPT ![p].pc = "init_dump", ![p].fd = PARAMS_PATH ]
       ELSE IF ov[p].pc = "init_dump"
       THEN /\ fs' = IF ov[p].fd \in DOMAIN fs
                     THEN [ fs EXCEPT ![ov[p].fd] =
                              Overwrite(fs[ov[p].fd], JsonDump(DefaultParams)) ]
                     ELSE fs
            /\ ov' = [ ov EXCEPT ![p].pc = "json_load", ![p].fd = "none" ]
       ELSE LET params == JsonLoad(fs[PARAMS_PATH])
            IN  /\ UNCHANGED fs
                /\ IF ~JsonLoadable(fs[PARAMS_PATH])
                   THEN ov' = [ ov EXCEPT ![p].pc = "failed" ]
                   ELSE ov' = [ ov EXCEPT
                                  ![p].pc = "open",
                                  ![p].params = [ k \in DOMAIN params \cup {ov[p].key} |->
                                                    IF k = ov[p].key THEN ov[p].value
                                                    ELSE params[k] ] ]
    /\ UNCHANGED <<logFile, doc, pc, cmd, fields, sp, call, tf, err, events,
                   message, start, spOld, invocations>>

\* open(temp_path, "w") in process p: the file at temp_path is created, or
\* truncated where it is (a process that holds it open keeps holding it).
overlap_open(p) ==
    /\ ov[p].pc = "open"
    /\ fs' = [ fs EXCEPT ![temp_path] = Truncated(NoFile, 0) ]
    /\ ov' = [ ov EXCEPT ![p].pc = "dump", ![p].fd = temp_path ]
    /\ UNCHANGED <<logFile, doc, pc, cmd, fields, sp, call, tf, err, events,
                   message, start, spOld, invocations>>

\* json.dump and the close of the file in process p: the buffered text is
\* written at the start of the file p holds, wherever that file is now.
overlap_dump(p) ==
    /\ ov[p].pc = "dump"
    /\ fs' = IF ov[p].fd \in DOMAIN fs
             THEN [ fs EXCEPT ![ov[p].fd] = Overwrite(fs[ov[p].fd], JsonDump(ov[p].params)) ]
             ELSE fs
    /\ ov' = [ ov EXCEPT ![p].pc = "replace", ![p].fd = "none" ]
    /\ UNCHANGED <<logFile, doc, pc, cmd, fields, sp, call, tf, err, events,
                   message, start, spOld, invocations>>

\* Where an open file is after os.replace(temp_path, PARAMS_PATH).
Moved(fd) ==
    IF fd = temp_path THEN PARAMS_PATH
    ELSE IF fd = PARAMS_PATH THEN "unlinked"
    ELSE fd

\* os.replace(temp_path, PARAMS_PATH) in process p: FileNotFoundError when
\* the other process has renamed the temp file away.
overlap_replace(p) ==
    /\ ov[p].pc = "replace"
    /\ IF ~fs[temp_path].exists
       THEN /\ ov' = [ ov EXCEPT ![p].pc = "failed" ]
            /\ UNCHANGED fs
       ELSE /\ fs' = os_replace(fs, temp_path, PARAMS_PATH)
            /\ ov' = [ q \in Procs |->
                         IF q = p THEN [ ov[q] EXCEPT !.pc = "done" ]
                         ELSE [ ov[q] EXCEPT !.fd = Moved(ov[q].fd) ] ]
    /\ UNCHANGED <<logFile, doc, pc, cmd, fields, sp, call, tf, err, events,
                   message, start, spOld, invocations>>

NextOverlap ==
    \E p \in Procs :
        \/ overlap_load(p)
        \/ overlap_open(p)
        \/ overlap_dump(p)
        \/ overlap_replace(p)

SpecOverlap == InitOverlap /\ [][NextOverlap]_vars

(***************************************************************************)
(* Properties.                                                             *)
(***************************************************************************)
Count(seq, e) == Cardinality({ i \in DOMAIN seq : seq[i] = e })

Happened(e) == \E i \in DOMAIN events : events[i] = e

\* What get_param(k) gave when the running command was invoked.
StartParam(k) ==
    LET file == IF start.params.exists THEN start.params
                ELSE JsonDump(DefaultParams)
        params == JsonLoad(file)
    IN  IF ~JsonLoadable(file) THEN JSONDecodeError
        ELSE IF k \in DOMAIN params THEN params[k] ELSE None

GatedCommand == cmd \in {"autocomplete", "transform_text"}

\* C1: when the stored OPENAI_API_KEY is empty, an invocation of autocomplete
\* or transform_text opens the configuration dialog first, makes no HTTP call
\* and does not touch the document (nor the log), whatever the user does in
\* the dialog.
C1_EmptyKeyOpensConfig ==
    (GatedCommand /\ StartParam("OPENAI_API_KEY") = "") =>
        /\ events # << >>
        /\ events[1] = "config_dialog"
        /\ ~Happened("http")
        /\ ~Happened("setString")
        /\ ~Happened("instruction_dialog")
        /\ pc \notin {"urlopen", "log_api_call", "call_returned"}
        /\ doc = start.doc
        /\ logFile = start.log

\* C1 witness: the key was empty, the user typed a key into the dialog and
\* confirmed, the key is saved and the command has returned.
C1_Witness ==
    /\ GatedCommand
    /\ StartParam("OPENAI_API_KEY") = ""
    /\ get_param("OPENAI_API_KEY") # ""
    /\ pc = "returned"

\* call_llm has ended (returned or raised) in the running command.
CallEnded == call.outcome # "none" /\ pc # "log_api_call"

\* C2: every call of call_llm, whatever its outcome, has appended exactly one
\* entry to the log when it ends, holding the endpoint, the request, the
\* response or raw error body, and the status code.
C2_EveryCallLogged ==
    CallEnded =>
        logFile = start.log \o EntryLines(call.url, call.data, call.response,
                                          call.status)

\* C3: while a set_param(k, v) call runs, after it has returned, and after a
\* crash at any of its steps, PARAMS_PATH holds a complete mapping that is
\* the previous one or the previous one with k set to v; once the call has
\* returned, get_param(k) is v and every other key reads as before.
C3_SetParamAtomic ==
    sp.active =>
        /\ JsonLoadable(fs[PARAMS_PATH])
        /\ JsonLoad(fs[PARAMS_PATH]) \in {spOld, [spOld EXCEPT ![sp.key] = sp.value]}
        /\ sp.returned =>
             /\ get_param(sp.key) = sp.value
             /\ \A k \in Keys \ {sp.key} : get_param(k) = spOld[k]

\* C3 witness: the process crashed between the write of the temp file and
\* the rename, in a call that changes the value of its key.
C3_Witness ==
    /\ pc = "crashed"
    /\ sp.active
    /\ ~sp.returned
    /\ fs[temp_path].exists
    /\ fs[temp_path].complete
    /\ spOld[sp.key] # sp.value

\* C4: with the API key set, when the endpoint has answered autocomplete with
\* a chat completion, the command ends with the selected range replaced by
\* choices[0].message.content and nothing else changed in the document, one
\* HTTP call made, and one log entry with status 200 appended.
C4_AutocompleteInserts ==
    ( /\ cmd = "autocomplete"
      /\ call.outcome = "ok"
      /\ call.response.kind = "chat"
      /\ pc \in {"message_box", "returned"} ) =>
        /\ doc = [start.doc EXCEPT !.sel = call.response.content]
        /\ Count(events, "http") = 1
        /\ call.status = 200
        /\ logFile = start.log \o EntryLines(call.url, call.data, call.response, 200)

\* C5 as the specification states it: after a successful response
\* transform_text replaces the selection with the response content alone
\* when keep-original is off, and with the original text followed by the
\* content between the markers when it is on; the markers appear only in the
\* second case.
C5_MarkersOnlyWhenKept ==
    (cmd = "transform_text" /\ Happened("setString")) =>
        doc.sel = IF tf.keep_original
                  THEN start.doc.sel \o <<"\n", "\n", "U+21A6">>
                       \o call.response.content \o <<"U+21A4">>
                  ELSE call.response.content

\* C5, amended: after a successful response transform_text replaces the
\* selection, and nothing else of the document, with the response content
\* between the markers U+21A6 and U+21A4 in both cases; the original
\* selected text and two newlines precede the opening marker exactly when
\* keep-original is on.
C5_MarkersAlways ==
    /\ (cmd = "transform_text" /\ Happened("setString")) =>
        /\ tf.dialog = "ok"
        /\ doc = [ start.doc EXCEPT !.sel =
                     (IF tf.keep_original THEN start.doc.sel \o <<"\n", "\n">>
                      ELSE << >>)
                     \o <<"U+21A6">> \o call.response.content \o <<"U+21A4">> ]
    /\ ( /\ cmd = "transform_text"
         /\ pc = "returned"
         /\ err = "none"
         /\ call.response.kind = "chat" ) => Happened("setString")

\* C5 witness: a transformation was written with keep-original off.
C5_Witness ==
    /\ cmd = "transform_text"
    /\ Happened("setString")
    /\ ~tf.keep_original
    /\ pc = "returned"

Before(a, b) ==
    \A j \in DOMAIN events : events[j] = b =>
        \E i \in 1..(j - 1) : events[i] = a

\* C6: with a selection and a key, transform_text makes its HTTP call only
\* after the instruction dialog has returned an instruction; when the user
\* cancels the dialog the command returns with no HTTP call, the document
\* and the log as they were.
C6_InstructionBeforeCall ==
    cmd = "transform_text" =>
        /\ (pc \in {"urlopen", "log_api_call", "call_returned"} \/ Happened("http")) =>
             /\ tf.dialog = "ok"
             /\ tf.instruction \notin {"", None}
             /\ call.data.system = tf.instruction
             /\ Before("instruction_dialog", "http")
        /\ tf.dialog = "cancel" =>
             /\ pc = "returned"
             /\ ~Happened("http")
             /\ ~Happened("setString")
             /\ ~Happened("log")
             /\ doc = start.doc
             /\ logFile = start.log

\* C6 witness: the user cancelled the instruction dialog.
C6_Witness ==
    /\ cmd = "transform_text"
    /\ start.doc.sel # << >>
    /\ tf.dialog = "cancel"
    /\ pc = "returned"

\* C7 as the specification states it: with nothing selected transform_text
\* does nothing, whatever the stored configuration: no dialog, no HTTP call,
\* document, parameters and log unchanged.
C7_NoSelectionNoOp ==
    (cmd = "transform_text" /\ start.doc.sel = << >>) =>
        /\ events = << >>
        /\ pc = "returned"
        /\ doc = start.doc
        /\ fs[PARAMS_PATH] = start.params
        /\ logFile = start.log

\* C7, amended: with nothing selected transform_text never opens the
\* instruction dialog, makes no HTTP call and leaves document and log
\* unchanged, whatever the stored configuration; when moreover the API key
\* is set and both context sizes are integers it shows nothing at all and
\* leaves the parameters unchanged.
C7_NoSelectionNoCall ==
    (cmd = "transform_text" /\ start.doc.sel = << >>) =>
        /\ ~Happened("instruction_dialog")
        /\ ~Happened("http")
        /\ ~Happened("log")
        /\ ~Happened("setString")
        /\ pc \notin {"instruction_dialog", "urlopen", "log_api_call", "call_returned"}
        /\ doc = start.doc
        /\ logFile = start.log
        /\ ( /\ StartParam("OPENAI_API_KEY") # ""
             /\ IntParses(StartParam("CONTEXT_PREVIOUS_CHARS"))
             /\ IntParses(StartParam("CONTEXT_NEXT_CHARS")) ) =>
               /\ events = << >>
               /\ pc = "returned"
               /\ fs[PARAMS_PATH] = start.params

\* C7 witness: transform_text has returned at once, nothing being selected.
C7_Witness ==
    /\ cmd = "transform_text"
    /\ start.doc.sel = << >>
    /\ StartParam("OPENAI_API_KEY") # ""
    /\ events = << >>
    /\ pc = "returned"

\* C8: an exception raised while a command handler runs is caught by that
\* handler and shown in the message box with its detail; none reaches the
\* host, and the document is as it was when the command was invoked.
C8_ExceptionsCaught ==
    err # "none" =>
        /\ pc \in {"message_box", "returned"}
        /\ message.text = "FULL ERROR"
        /\ message.err = err
        /\ doc = start.doc

\* C9: when the endpoint answered with an HTTP error, the log entry is
\* written and the exception that leaves call_llm is that HTTPError, also
\* when writing the entry failed; and when the endpoint answered with a
\* response that parsed, call_llm raises nothing, also when writing the
\* entry failed.
C9_LoggingNeverMasks ==
    CallEnded =>
        /\ call.outcome = "httperror" => err = "HTTPError"
        /\ (call.outcome = "httperror" /\ Happened("log")) =>
             logFile = start.log \o EntryLines(call.url, call.data, call.response,
                                               call.status)
        /\ call.outcome = "ok" => err \in {"none", "KeyError"}

\* The API calls the log holds: one Timestamp line each.
LoggedCalls(lines) == Count([ i \in DOMAIN lines |-> lines[i].part ], "Timestamp:")

\* The lines of the last n logged calls, each call with all of its lines.
RECURSIVE LastEntries(_, _)
LastEntries(lines, n) ==
    IF n = 0 \/ lines = << >> THEN << >>
    ELSE LET last == lines[Len(lines)]
             rest == SubSeq(lines, 1, Len(lines) - 1)
         IN  IF last.part = "initializing..." THEN LastEntries(rest, n)
             ELSE IF last.part = "Timestamp:" THEN Append(LastEntries(rest, n - 1), last)
             ELSE Append(LastEntries(rest, n), last)

\* C10: show_logs shows the notice "No API logs found" when no API call has
\* been logged, and else the LogLimit most recent logged calls (all of them
\* when there are fewer), each call in full.
C10_ShowsLastCalls ==
    (cmd = "show_logs" /\ pc = "message_box") =>
        IF LoggedCalls(logFile) = 0
        THEN message.text = "No API logs found" /\ message.lines = << >>
        ELSE message.text = "API Logs:"
             /\ message.lines = LastEntries(logFile, LogLimit)

\* modify_config has acknowledged the save.
Acknowledged == message.text = "Configuration updated successfully!"

\* The keys the store held when the running command was invoked.
StartKeys == DOMAIN JsonLoad(start.params)

\* C11, the states: the configuration dialog holds one field for every key
\* of the store, with the stored value; once modify_config has acknowledged
\* the save, get_param(k) is the field of k for every key k of the store;
\* when the dialog was cancelled the parameters file is as it was; and while
\* a command runs the file differs from what it was only after the confirm
\* of the configuration dialog.
C11_DialogStates ==
    /\ pc = "config_dialog" =>
         /\ DOMAIN fields = DOMAIN JsonLoad(fs[PARAMS_PATH])
         /\ \A k \in DOMAIN fields : fields[k] = get_param(k)
    /\ Acknowledged =>
         /\ Happened("config_dialog")
         /\ DOMAIN fields = StartKeys
         /\ \A k \in StartKeys : get_param(k) = fields[k]
         /\ DOMAIN JsonLoad(fs[PARAMS_PATH]) = StartKeys
    /\ (pc = "returned" /\ Happened("config_dialog") /\ ~Happened("message")) =>
         fs[PARAMS_PATH] = start.params
    /\ (cmd # "none" /\ fs[PARAMS_PATH] # start.params) =>
         /\ Happened("config_dialog")
         /\ sp.active

\* C11: modify_config shows one field per key of the store, its confirm
\* persists every field and is acknowledged, its cancel leaves the store
\* as it was, and no step other than the rename inside a set_param call of
\* that confirm ever changes the parameters file.
C11_ConfigOnlyByConfirm ==
    /\ []C11_DialogStates
    /\ [][ fs[PARAMS_PATH]' # fs[PARAMS_PATH] =>
             (pc = "set_param_replace" /\ Happened("config_dialog")) ]_vars

\* C11 witness: a confirm that changed a value has been acknowledged.
C11_Witness ==
    /\ Acknowledged
    /\ pc = "returned"
    /\ fs[PARAMS_PATH] # start.params
    /\ \A k \in StartKeys : get_param(k) = fields[k]

\* C12: while two set_param calls overlap, with their file operations
\* interleaved in any order, PARAMS_PATH holds a complete mapping at every
\* moment and neither call fails.
C12_OverlapSafe ==
    /\ JsonLoadable(fs[PARAMS_PATH])
    /\ \A p \in DOMAIN ov : ov[p].pc # "failed"

====
